---- MODULE Spec2Model ----
(***************************************************************************)
(* CameraBounds (src/CameraBounds.js): a guard that keeps a CesiumJS       *)
(* camera inside a bounding box or near an entity by reverting it, at      *)
(* every preRender notification, to the last pose that passed the test.    *)
(*                                                                         *)
(* Geodetic coordinates are integers: longitude and latitude are stored,   *)
(* as the camera stores them, in radians, one unit being pi/36 rad, and    *)
(* Cesium.Math.toDegrees multiplies by 180/pi, i.e. by 5 per unit.         *)
(* Distances on the ellipsoid surface are Euclidean on this grid.          *)
(***************************************************************************)
EXTENDS Integers, Sequences, FiniteSets, TLC

\* ---------------------------------------------------------------- bounds
MaxLon == 1
MaxLat == 1
MaxHeight == 1
MaxInstalls == 2
MaxBlocked == 2

\* ---------------------------------------------------------------- values
Null == [null |-> TRUE]
Undefined == [undefined |-> TRUE]

\* camera.position, as longitude, latitude (radians, in units of pi/36) and
\* ellipsoidal height
AllPositions == [lon : 0..MaxLon, lat : 0..MaxLat, height : 0..MaxHeight]

\* where the camera and the entity of the running guard are: over the equator
Positions == {p \in AllPositions : p.lat = 0}

\* heading, pitch, roll (degrees here); the first is what Camera.setView
\* falls back to when it is given no orientation
DefaultOrientation == [heading |-> 0, pitch |-> -90, roll |-> 0]
Orientations == {DefaultOrientation, [heading |-> 1, pitch |-> -45, roll |-> 1]}

CamerasAt(positions) ==
  {[position |-> p, heading |-> o.heading, pitch |-> o.pitch, roll |-> o.roll] :
     p \in positions, o \in Orientations}

Cameras == CamerasAt(Positions)

\* the one entity of the scene: a primitive wrapper or a Cesium.Entity, on
\* the equator at ground level, or with a position that does not resolve
EntityPositions == {p \in Positions : p.height = 0} \cup {Undefined}

\* arguments the host passes to the installers
\* (xmin, ymin, xmax, ymax, zmax) in degrees and metres: two disjoint boxes, one
\* that holds both, one with xmin > xmax; and (distance, z)
BoxInputs == {<<0, 0, 0, 0, 1>>, <<5, 0, 5, 0, 0>>, <<0, 0, 5, 0, 0>>, <<5, 0, 0, 0, 1>>}
EntityInputs == {<<0, 1>>, <<1, 0>>, <<-1, 1>>}

VARIABLES
  camera,                      \* viewer.camera: position, heading, pitch, roll
  entity,                      \* the entity limitEntity is given (by reference)
  preRender,                   \* viewer.scene.preRender: the registered callbacks
  cameraMovementListener,      \* this.cameraMovementListener
  previousCameraPosition,      \* this.previousCameraPosition
  previousCameraOrientation,   \* this.previousCameraOrientation
  blockedCount,                \* cameraBlocked events dispatched so far
  nextId,                      \* identity of the next checkCameraPosition closure
  history,                     \* what the host asked for and what the checks saw
  lastOp,                      \* the operation that led to this state
  probe                        \* a predicate applied on its own

vars == <<camera, entity, preRender, cameraMovementListener, previousCameraPosition,
          previousCameraOrientation, blockedCount, nextId, history, lastOp, probe>>

\* --------------------------------------------------------- engine (Cesium)
defined(x) == x # Undefined /\ x # Null

toDegrees(radians) == radians * 5

\* camera.positionCartographic
positionCartographic(cam) ==
  [longitude |-> cam.position.lon, latitude |-> cam.position.lat, height |-> cam.position.height]

\* ellipsoid.scaleToGeodeticSurface: the point below p on the surface
scaleToGeodeticSurface(p) == [lon |-> p.lon, lat |-> p.lat, height |-> 0]

\* Cesium.Cartesian3.distance(a, b) > d, with squares in place of the root
distanceExceeds(a, b, d) ==
  \/ d < 0
  \/ (a.lon - b.lon) * (a.lon - b.lon) + (a.lat - b.lat) * (a.lat - b.lat)
       + (a.height - b.height) * (a.height - b.height) > d * d

\* camera.setView({destination, orientation}): an immediate jump; a missing
\* destination keeps the position, a missing orientation is the default one
setView(cam, destination, orientation) ==
  LET o == IF defined(orientation) THEN orientation ELSE DefaultOrientation
  IN  [position |-> IF defined(destination) THEN destination ELSE cam.position,
       heading |-> o.heading, pitch |-> o.pitch, roll |-> o.roll]

\* preRender.addEventListener(cb), and the remover function it returns, which
\* takes the callback off the channel (and does nothing when it is not on it)
addEventListener(listeners, cb) == Append(listeners, cb)
removeEventListener(listeners, id) ==
  SelectSeq(listeners, LAMBDA cb : cb.id # id)

\* ------------------------------------------------------------- predicates
\* entity.primitive.position when the entity wraps a primitive, otherwise
\* entity.position.getValue(): either way the position the entity has now
entityPositionOf(ent) == ent.position

testCameraDistanceFromEntityThrows(cam, ent) == ~defined(entityPositionOf(ent))

\* variant of testCameraDistanceFromEntity that measures between the positions
\* themselves, not between their projections on the surface
testCameraDistanceFromEntity_NoProjection(cam, ent, distance, z) ==
  LET entityPosition == entityPositionOf(ent)
      cameraHeight == positionCartographic(cam).height
  IN  \/ distanceExceeds(cam.position, entityPosition, distance)
      \/ cameraHeight > z

testCameraDistanceFromEntity(cam, ent, distance, z) ==
  LET entityPosition == entityPositionOf(ent)
      cameraPositionOnEllipsoid == scaleToGeodeticSurface(cam.position)
      entityPositionOnEllipsoid == scaleToGeodeticSurface(entityPosition)
      cameraHeight == positionCartographic(cam).height
  IN  \/ distanceExceeds(cameraPositionOnEllipsoid, entityPositionOnEllipsoid, distance)
      \/ cameraHeight > z

\* variant of testCameraBBOX whose upper edges are exclusive
testCameraBBOX_OpenEdges(cam, xmin, ymin, xmax, ymax, zmax) ==
  LET cameraPosition == positionCartographic(cam)
      lon == toDegrees(cameraPosition.longitude)
      lat == toDegrees(cameraPosition.latitude)
      z == cameraPosition.height
  IN  ~(lon >= xmin /\ lon < xmax /\ lat >= ymin /\ lat < ymax /\ z <= zmax)

testCameraBBOX(cam, xmin, ymin, xmax, ymax, zmax) ==
  LET cameraPosition == positionCartographic(cam)
      lon == toDegrees(cameraPosition.longitude)
      lat == toDegrees(cameraPosition.latitude)
      z == cameraPosition.height
  IN  ~(lon >= xmin /\ lon <= xmax /\ lat >= ymin /\ lat <= ymax /\ z <= zmax)

\* distanceTestFunction.apply(this, parameters)
applyThrows(cb, cam, ent) ==
  cb.test = "testCameraDistanceFromEntity" /\ testCameraDistanceFromEntityThrows(cam, ent)

applyTest(cb, cam, ent) ==
  IF cb.test = "testCameraBBOX"
  THEN testCameraBBOX(cam, cb.parameters[1], cb.parameters[2], cb.parameters[3],
                      cb.parameters[4], cb.parameters[5])
  ELSE testCameraDistanceFromEntity(cam, ent, cb.parameters[1], cb.parameters[2])

\* ------------------------------------------------------------ CameraBounds
\* The operations work on one record, the guard and what it holds of the
\* viewer: camera, previousCameraPosition, previousCameraOrientation, preRender,
\* cameraMovementListener, nextId, and what the running call has done so far:
\* events (cameraBlocked dispatched), unsubscribed (calls of the remover),
\* thrown, evals and lastInBounds; listener is what the host's cameraBlocked
\* listener does when it is called, and heard the camera pose it finds.

\* variants of disableCameraMovementLimitation: the handle is dropped without
\* being called; the handle is called and kept
disableCameraMovementLimitation_NoUnsubscribe(g) ==
  IF defined(g.cameraMovementListener)
  THEN [g EXCEPT !.cameraMovementListener = Undefined]
  ELSE g

disableCameraMovementLimitation_KeepsHandle(g) ==
  IF defined(g.cameraMovementListener)
  THEN [g EXCEPT !.preRender = removeEventListener(@, g.cameraMovementListener.removes),
                 !.unsubscribed = @ + 1]
  ELSE g

\* disableCameraMovementLimitation
disableCameraMovementLimitation(g) ==
  IF defined(g.cameraMovementListener)
  THEN [g EXCEPT !.preRender = removeEventListener(@, g.cameraMovementListener.removes),
                 !.cameraMovementListener = Undefined,
                 !.unsubscribed = @ + 1]
  ELSE g

\* variants of limitCamera: the previous limitation is not disabled; the handle
\* of the new registration is not stored
limitCamera_NoDisable(g, cb) ==
  [g EXCEPT !.preRender = addEventListener(@, cb),
            !.cameraMovementListener = [removes |-> cb.id]]

limitCamera_HandleLost(g, cb) ==
  LET g1 == disableCameraMovementLimitation(g)
  IN  [g1 EXCEPT !.preRender = addEventListener(@, cb)]

\* more variants of limitCamera: the stored pose is cleared with every install;
\* the new constraint is applied at once, not at the next frame
limitCamera_ResetsPose(g, cb) ==
  LET g1 == disableCameraMovementLimitation(g)
  IN  [g1 EXCEPT !.preRender = addEventListener(@, cb),
                 !.cameraMovementListener = [removes |-> cb.id],
                 !.previousCameraPosition = Null,
                 !.previousCameraOrientation = Null]

limitCamera_AppliesAtOnce(g, cb) ==
  LET g1 == disableCameraMovementLimitation(g)
      g2 == [g1 EXCEPT !.preRender = addEventListener(@, cb),
                       !.cameraMovementListener = [removes |-> cb.id]]
  IN  IF ~applyThrows(cb, g2.camera, entity) /\ applyTest(cb, g2.camera, entity)
      THEN [g2 EXCEPT !.camera = setView(g2.camera, g2.previousCameraPosition,
                                         g2.previousCameraOrientation)]
      ELSE g2

\* limitCamera(distanceTestFunction, parameters), cb being the new closure
limitCamera(g, cb) ==
  LET g1 == disableCameraMovementLimitation(g)
  IN  [g1 EXCEPT !.preRender = addEventListener(@, cb),
                 !.cameraMovementListener = [removes |-> cb.id]]

\* limitBBOX and limitEntity: the closure gets the next identity
limitBBOX(g, box) ==
  limitCamera([g EXCEPT !.nextId = @ + 1],
              [id |-> g.nextId, test |-> "testCameraBBOX", parameters |-> box])

limitEntity(g, args) ==
  limitCamera([g EXCEPT !.nextId = @ + 1],
              [id |-> g.nextId, test |-> "testCameraDistanceFromEntity", parameters |-> args])

\* what a cameraBlocked listener of the host may do, called from dispatchEvent
NoReaction == [op |-> "none", parameters |-> <<>>]
Reactions ==
  {NoReaction,
   [op |-> "disable", parameters |-> <<>>],
   [op |-> "limitBBOX", parameters |-> <<0, 0, 5, 0, 0>>],
   [op |-> "limitEntity", parameters |-> <<1, 0>>]}

\* this.dispatchEvent(new Event('cameraBlocked')): the listener runs inside it
dispatchEvent(st) ==
  LET s1 == [st EXCEPT !.events = @ + 1, !.heard = st.camera]
  IN  IF st.listener.op = "disable" THEN disableCameraMovementLimitation(s1)
      ELSE IF st.listener.op = "limitBBOX" THEN limitBBOX(s1, st.listener.parameters)
      ELSE IF st.listener.op = "limitEntity" THEN limitEntity(s1, st.listener.parameters)
      ELSE s1

\* variants of checkCameraPosition with a slip in one branch: the revert drops
\* the orientation; the update stores the position only; the event is
\* dispatched only when there was a pose to go back to
checkCameraPosition_PositionOnly(cb, st, ent) ==
  IF applyThrows(cb, st.camera, ent)
  THEN [st EXCEPT !.thrown = TRUE]
  ELSE IF applyTest(cb, st.camera, ent)
  THEN dispatchEvent(
         [st EXCEPT !.camera = setView(st.camera, st.previousCameraPosition, Undefined)])
  ELSE [st EXCEPT !.previousCameraPosition = st.camera.position,
                  !.previousCameraOrientation =
                     [heading |-> st.camera.heading, pitch |-> st.camera.pitch,
                      roll |-> st.camera.roll]]

checkCameraPosition_StaleOrientation(cb, st, ent) ==
  IF applyThrows(cb, st.camera, ent)
  THEN [st EXCEPT !.thrown = TRUE]
  ELSE IF applyTest(cb, st.camera, ent)
  THEN dispatchEvent(
         [st EXCEPT !.camera = setView(st.camera, st.previousCameraPosition,
                                       st.previousCameraOrientation)])
  ELSE [st EXCEPT !.previousCameraPosition = st.camera.position,
                  !.previousCameraOrientation =
                     IF defined(@) THEN @
                     ELSE [heading |-> st.camera.heading, pitch |-> st.camera.pitch,
                           roll |-> st.camera.roll]]

checkCameraPosition_QuietWithoutPose(cb, st, ent) ==
  IF applyThrows(cb, st.camera, ent)
  THEN [st EXCEPT !.thrown = TRUE]
  ELSE IF applyTest(cb, st.camera, ent)
  THEN LET s1 == [st EXCEPT !.camera = setView(st.camera, st.previousCameraPosition,
                                               st.previousCameraOrientation)]
       IN  IF defined(st.previousCameraPosition) THEN dispatchEvent(s1) ELSE s1
  ELSE [st EXCEPT !.previousCameraPosition = st.camera.position,
                  !.previousCameraOrientation =
                     [heading |-> st.camera.heading, pitch |-> st.camera.pitch,
                      roll |-> st.camera.roll]]

\* more variants of checkCameraPosition: the predicate is not evaluated again
\* while the camera is at the stored pose; a predicate that cannot be evaluated
\* counts as in bounds; the event is dispatched before the camera is reverted
checkCameraPosition_CachedVerdict(cb, st, ent) ==
  IF /\ st.previousCameraPosition = st.camera.position
     /\ st.previousCameraOrientation =
          [heading |-> st.camera.heading, pitch |-> st.camera.pitch, roll |-> st.camera.roll]
  THEN st
  ELSE IF applyThrows(cb, st.camera, ent)
  THEN [st EXCEPT !.thrown = TRUE]
  ELSE IF applyTest(cb, st.camera, ent)
  THEN dispatchEvent(
         [st EXCEPT !.camera = setView(st.camera, st.previousCameraPosition,
                                       st.previousCameraOrientation)])
  ELSE [st EXCEPT !.previousCameraPosition = st.camera.position,
                  !.previousCameraOrientation =
                     [heading |-> st.camera.heading, pitch |-> st.camera.pitch,
                      roll |-> st.camera.roll]]

checkCameraPosition_FailOpen(cb, st, ent) ==
  IF ~applyThrows(cb, st.camera, ent) /\ applyTest(cb, st.camera, ent)
  THEN dispatchEvent(
         [st EXCEPT !.camera = setView(st.camera, st.previousCameraPosition,
                                       st.previousCameraOrientation)])
  ELSE [st EXCEPT !.previousCameraPosition = st.camera.position,
                  !.previousCameraOrientation =
                     [heading |-> st.camera.heading, pitch |-> st.camera.pitch,
                      roll |-> st.camera.roll]]

checkCameraPosition_DispatchFirst(cb, st, ent) ==
  IF applyThrows(cb, st.camera, ent)
  THEN [st EXCEPT !.thrown = TRUE]
  ELSE IF applyTest(cb, st.camera, ent)
  THEN LET s1 == dispatchEvent(st)
       IN  [s1 EXCEPT !.camera = setView(s1.camera, s1.previousCameraPosition,
                                         s1.previousCameraOrientation)]
  ELSE [st EXCEPT !.previousCameraPosition = st.camera.position,
                  !.previousCameraOrientation =
                     [heading |-> st.camera.heading, pitch |-> st.camera.pitch,
                      roll |-> st.camera.roll]]

\* checkCameraPosition, the closure limitCamera registers
checkCameraPosition(cb, st, ent) ==
  IF applyThrows(cb, st.camera, ent)
  THEN [st EXCEPT !.thrown = TRUE]
  ELSE IF applyTest(cb, st.camera, ent)
  THEN dispatchEvent(
         [st EXCEPT !.camera = setView(st.camera, st.previousCameraPosition,
                                       st.previousCameraOrientation)])
  ELSE [st EXCEPT !.previousCameraPosition = st.camera.position,
                  !.previousCameraOrientation =
                     [heading |-> st.camera.heading, pitch |-> st.camera.pitch,
                      roll |-> st.camera.roll]]

\* what the predicate of cb answers for the pose the camera has
verdictOf(cb, cam, ent) ==
  IF applyThrows(cb, cam, ent) THEN "throw"
  ELSE IF applyTest(cb, cam, ent) THEN "violation" ELSE "inBounds"

\* preRender.raiseEvent(): the callbacks registered when it starts, in turn, up
\* to the first that throws; one removed in the meantime is skipped, one added
\* in the meantime waits for the next frame. evals and lastInBounds record what
\* each check was given
RECURSIVE raiseEvent(_, _, _)
raiseEvent(listeners, st, ent) ==
  IF listeners = <<>> \/ st.thrown THEN st
  ELSE LET cb == Head(listeners)
           registered == \E i \in 1..Len(st.preRender) : st.preRender[i].id = cb.id
           v == verdictOf(cb, st.camera, ent)
           after == checkCameraPosition(cb, st, ent)
       IN  IF ~registered THEN raiseEvent(Tail(listeners), st, ent)
           ELSE raiseEvent(Tail(listeners),
                  [after EXCEPT !.evals = Append(@, [id |-> cb.id, verdict |-> v]),
                                !.lastInBounds = IF v = "inBounds" THEN st.camera ELSE @],
                  ent)

\* ------------------------------------------------------------------ state
NoOp == [op |-> "init", evals |-> <<>>, events |-> 0, unsubscribed |-> 0, streak |-> 0,
         reaction |-> "none", heard |-> Null]
NoProbe == [fn |-> "none"]

guard ==
  [camera |-> camera,
   previousCameraPosition |-> previousCameraPosition,
   previousCameraOrientation |-> previousCameraOrientation,
   preRender |-> preRender,
   cameraMovementListener |-> cameraMovementListener,
   nextId |-> nextId,
   listener |-> NoReaction,
   events |-> 0, unsubscribed |-> 0, thrown |-> FALSE, heard |-> Null,
   evals |-> <<>>, lastInBounds |-> history.lastInBounds]

\* the guard's fields after a call that ended in g
Becomes(g) ==
  /\ camera' = g.camera
  /\ previousCameraPosition' = g.previousCameraPosition
  /\ previousCameraOrientation' = g.previousCameraOrientation
  /\ preRender' = g.preRender
  /\ cameraMovementListener' = g.cameraMovementListener
  /\ nextId' = g.nextId
  /\ blockedCount' = blockedCount + g.events

\* the constraint the host asked for with its call number id
Requested(id, test, parameters) ==
  [id |-> id, test |-> test, parameters |-> parameters,
   replaces |-> IF defined(cameraMovementListener)
                THEN cameraMovementListener.removes ELSE 0,
   fresh |-> TRUE]

\* constructor and init()
Init ==
  /\ camera \in Cameras
  /\ entity \in [position : EntityPositions]
  /\ preRender = <<>>
  /\ cameraMovementListener = Undefined
  /\ previousCameraPosition = Null
  /\ previousCameraOrientation = Null
  /\ blockedCount = 0
  /\ nextId = 1
  /\ history = [requested |-> Null, violatingChecks |-> 0, checked |-> FALSE,
                lastInBounds |-> Null]
  /\ lastOp = NoOp
  /\ probe = NoProbe

Install(test, g) ==
  /\ nextId <= MaxInstalls
  /\ Becomes(g)
  /\ history' = [history EXCEPT !.requested =
                   Requested(nextId, test, g.preRender[Len(g.preRender)].parameters)]
  /\ lastOp' = [NoOp EXCEPT !.op = "install", !.unsubscribed = g.unsubscribed,
                            !.evals = g.evals, !.events = g.events]
  /\ UNCHANGED <<entity, probe>>

LimitBBOX ==
  \E box \in BoxInputs : \E g \in {limitBBOX(guard, box)} : Install("testCameraBBOX", g)

LimitEntity ==
  \E args \in EntityInputs : \E g \in {limitEntity(guard, args)} :
    Install("testCameraDistanceFromEntity", g)

DisableCameraMovementLimitation ==
  \E g \in {disableCameraMovementLimitation(guard)} :
      /\ Becomes(g)
      /\ history' = [history EXCEPT !.requested = Null]
      /\ lastOp' = [NoOp EXCEPT !.op = "disable", !.unsubscribed = g.unsubscribed,
                                !.evals = g.evals, !.events = g.events,
                                !.streak = IF lastOp.op = "disable" THEN 2 ELSE 1]
      /\ UNCHANGED <<entity, probe>>

\* one frame: the scene raises preRender before it renders; what the host's
\* listener does matters only in a frame that dispatches cameraBlocked
PreRender ==
  /\ blockedCount < MaxBlocked
  /\ \E reaction \in IF raiseEvent(preRender, guard, entity).events = 0
                      THEN {NoReaction} ELSE Reactions :
       /\ reaction.op \in {"limitBBOX", "limitEntity"} => nextId <= MaxInstalls
       /\ \E st \in {raiseEvent(preRender, [guard EXCEPT !.listener = reaction], entity)} :
          LET violating == {i \in 1..Len(st.evals) : st.evals[i].verdict = "violation"}
              reacted == IF st.events > 0 THEN reaction.op ELSE "none"
          IN  /\ Becomes(st)
              /\ history' =
                   [history EXCEPT
                      !.violatingChecks = @ + Cardinality(violating),
                      !.checked = @ \/ (st.evals # <<>> /\ ~st.thrown),
                      !.lastInBounds = st.lastInBounds,
                      !.requested =
                         IF reacted = "disable" THEN Null
                         ELSE IF reacted = "limitBBOX"
                         THEN Requested(nextId, "testCameraBBOX", reaction.parameters)
                         ELSE IF reacted = "limitEntity"
                         THEN Requested(nextId, "testCameraDistanceFromEntity",
                                        reaction.parameters)
                         ELSE IF @ # Null /\ st.evals # <<>>
                         THEN [@ EXCEPT !.fresh = FALSE]
                         ELSE @]
              /\ lastOp' = [NoOp EXCEPT !.op = "frame", !.evals = st.evals,
                                        !.events = st.events,
                                        !.unsubscribed = st.unsubscribed,
                                        !.reaction = reacted,
                                        !.heard = st.heard]
  /\ UNCHANGED <<entity, probe>>

\* the user (or the host) moves the camera between two frames: one step along
\* one axis, or a turn; any pose is some number of such moves away
CameraMove ==
  /\ \E c \in Cameras :
       /\ \/ /\ [heading |-> c.heading, pitch |-> c.pitch, roll |-> c.roll] =
                [heading |-> camera.heading, pitch |-> camera.pitch, roll |-> camera.roll]
             /\ (c.position.lon - camera.position.lon) * (c.position.lon - camera.position.lon)
                  + (c.position.lat - camera.position.lat) * (c.position.lat - camera.position.lat)
                  + (c.position.height - camera.position.height)
                     * (c.position.height - camera.position.height) = 1
          \/ /\ c.position = camera.position
             /\ c # camera
       /\ camera' = c
  /\ lastOp' = [NoOp EXCEPT !.op = "cameraMove"]
  /\ UNCHANGED <<entity, preRender, cameraMovementListener, previousCameraPosition,
                 previousCameraOrientation, blockedCount, nextId, history, probe>>

\* the entity moves, or its position stops resolving
EntityMove ==
  /\ \E p \in EntityPositions : p # entity.position /\ entity' = [position |-> p]
  /\ lastOp' = [NoOp EXCEPT !.op = "entityMove"]
  /\ UNCHANGED <<camera, preRender, cameraMovementListener, previousCameraPosition,
                 previousCameraOrientation, blockedCount, nextId, history, probe>>

Next ==
  \/ LimitBBOX
  \/ LimitEntity
  \/ DisableCameraMovementLimitation
  \/ PreRender
  \/ CameraMove
  \/ EntityMove

Spec == Init /\ [][Next]_vars

\* the predicates applied on their own, once, to every camera position and
\* every box whose edges are on the grid
ProbeDegrees == {toDegrees(k) : k \in 0..MaxLon} \cup {toDegrees(k) : k \in 0..MaxLat}

InitProbe ==
  /\ camera \in CamerasAt(AllPositions)
  /\ entity \in [position : AllPositions]
  /\ preRender = <<>>
  /\ cameraMovementListener = Undefined
  /\ previousCameraPosition = Null
  /\ previousCameraOrientation = Null
  /\ blockedCount = 0
  /\ nextId = 1
  /\ history = [requested |-> Null, violatingChecks |-> 0, checked |-> FALSE,
                lastInBounds |-> Null]
  /\ lastOp = NoOp
  /\ probe = NoProbe

ProbeBBOX ==
  /\ probe = NoProbe
  /\ \E xmin \in ProbeDegrees, ymin \in ProbeDegrees, xmax \in ProbeDegrees,
        ymax \in ProbeDegrees, zmax \in 0..MaxHeight :
       probe' = [fn |-> "testCameraBBOX", box |-> <<xmin, ymin, xmax, ymax, zmax>>,
                 result |-> testCameraBBOX(camera, xmin, ymin, xmax, ymax, zmax)]
  /\ UNCHANGED <<camera, entity, preRender, cameraMovementListener, previousCameraPosition,
                 previousCameraOrientation, blockedCount, nextId, history, lastOp>>

\* distances of the grid, and one below zero
ProbeDistances == -1..MaxLon

ProbeEntity ==
  /\ probe = NoProbe
  /\ \E distance \in ProbeDistances, z \in 0..MaxHeight :
       probe' = [fn |-> "testCameraDistanceFromEntity", args |-> <<distance, z>>,
                 result |-> testCameraDistanceFromEntity(camera, entity, distance, z)]
  /\ UNCHANGED <<camera, entity, preRender, cameraMovementListener, previousCameraPosition,
                 previousCameraOrientation, blockedCount, nextId, history, lastOp>>

NextProbe ==
  \/ ProbeBBOX
  \/ ProbeEntity

SpecProbe == InitProbe /\ [][NextProbe]_vars

\* ----------------------------------------------------------------- claims
orientationOf(cam) == [heading |-> cam.heading, pitch |-> cam.pitch, roll |-> cam.roll]

\* the last step was a frame in which exactly one check ran, with verdict v
JustChecked(v) ==
  /\ lastOp.op = "frame"
  /\ Len(lastOp.evals) = 1
  /\ lastOp.evals[1].verdict = v

\* the camera pose passes the constraint c (a closure or the host's request)
InBounds(c, cam, ent) == ~applyThrows(c, cam, ent) /\ ~applyTest(c, cam, ent)

\* the constraint can be met: xmin <= xmax and ymin <= ymax, or distance >= 0
WellFormed(c) ==
  IF c.test = "testCameraBBOX"
  THEN c.parameters[1] <= c.parameters[3] /\ c.parameters[2] <= c.parameters[4]
  ELSE c.parameters[1] >= 0

\* C1: whenever a frame-start check has completed while a constraint is active,
\* the camera pose is in bounds of the active constraint (stated here for the
\* constraints that can be met at all, and for frames in which no listener
\* changed the constraint).
C1_Containment ==
  (/\ lastOp.op = "frame"
   /\ lastOp.reaction = "none"
   /\ lastOp.evals # <<>>
   /\ \A i \in 1..Len(lastOp.evals) : lastOp.evals[i].verdict # "throw"
   /\ history.requested # Null
   /\ WellFormed(history.requested))
  => InBounds(history.requested, camera, entity)

\* C2: a frame check that finds a violation while a last valid pose is stored
\* leaves the camera at exactly that position and orientation and dispatches
\* exactly one cameraBlocked event.
C2_RevertFidelity ==
  [][(JustChecked("violation")' /\ previousCameraPosition # Null)
       => /\ camera'.position = previousCameraPosition
          /\ orientationOf(camera') = previousCameraOrientation
          /\ lastOp'.events = 1
          /\ blockedCount' = blockedCount + 1]_vars

C2_Witness ==
  /\ JustChecked("violation")
  /\ previousCameraPosition # Null
  /\ camera.position = previousCameraPosition
  /\ orientationOf(camera) = previousCameraOrientation
  /\ orientationOf(camera) # DefaultOrientation
  /\ lastOp.events = 1
  /\ history.requested # Null
  /\ InBounds(history.requested, camera, entity)

\* C3: a frame check that finds the camera in bounds at pose P1 leaves the
\* camera at P1, stores P1 as the last valid pose and dispatches no event.
C3_NoOpOnSuccess ==
  [][JustChecked("inBounds")'
       => /\ camera' = camera
          /\ previousCameraPosition' = camera.position
          /\ previousCameraOrientation' = orientationOf(camera)
          /\ lastOp'.events = 0
          /\ blockedCount' = blockedCount]_vars

C3_Witness ==
  /\ JustChecked("inBounds")
  /\ previousCameraPosition = camera.position
  /\ previousCameraOrientation = orientationOf(camera)
  /\ orientationOf(camera) # DefaultOrientation
  /\ blockedCount > 0

\* C4: each violating frame check dispatches exactly one cameraBlocked event
\* and nothing else dispatches any, so the events dispatched so far are as
\* many as the violating checks so far.
C4_BlockedOncePerViolation ==
  /\ blockedCount = history.violatingChecks
  /\ lastOp.events =
       Cardinality({i \in 1..Len(lastOp.evals) : lastOp.evals[i].verdict = "violation"})
  /\ lastOp.op # "frame" => lastOp.events = 0

C4_Witness ==
  /\ JustChecked("violation")
  /\ blockedCount = 1
  /\ previousCameraPosition # Null
  /\ camera.position = previousCameraPosition

\* C5: the last valid pose is null only while no frame check has run; once a
\* check has run it is non-null and is the pose the most recent in-bounds
\* check observed (stated here for checks of a constraint that can be met).
C5_LastValidPose ==
  (history.requested # Null /\ WellFormed(history.requested)) =>
  /\ previousCameraPosition = Null => ~history.checked
  /\ history.checked =>
       /\ previousCameraPosition # Null
       /\ history.lastInBounds # Null
       /\ previousCameraPosition = history.lastInBounds.position
       /\ previousCameraOrientation = orientationOf(history.lastInBounds)

\* C6: after an installer call, and in particular one that replaces an active
\* constraint, every frame evaluates the predicate and parameters of the
\* constraint installed last, once, and no other callback.
C6_Replacement ==
  [][(lastOp'.op = "frame" /\ history.requested # Null)
       => /\ Len(lastOp'.evals) = 1
          /\ lastOp'.evals[1].id = history.requested.id
          /\ \A i \in 1..Len(preRender) :
               preRender[i].id = history.requested.id =>
                 /\ preRender[i].test = history.requested.test
                 /\ preRender[i].parameters = history.requested.parameters]_vars

C6_Witness ==
  /\ lastOp.op = "frame"
  /\ history.requested # Null
  /\ history.requested.replaces # 0
  /\ Len(lastOp.evals) = 1
  /\ lastOp.evals[1].id = history.requested.id
  /\ lastOp.evals[1].verdict = "violation"

\* C7: at most one frame-check callback of the guard is registered on
\* preRender, the stored handle is defined exactly when one is, and it is the
\* handle of that callback; an installer that finds a registration cancels it.
C7_SingleSubscription ==
  /\ Len(preRender) <= 1
  /\ defined(cameraMovementListener) <=> Len(preRender) = 1
  /\ defined(cameraMovementListener) => preRender[1].id = cameraMovementListener.removes
  /\ (lastOp.op = "install" /\ history.requested.replaces # 0) =>
       /\ lastOp.unsubscribed = 1
       /\ \A i \in 1..Len(preRender) : preRender[i].id # history.requested.replaces

C7_Witness ==
  /\ lastOp.op = "install"
  /\ history.requested.replaces # 0
  /\ Len(preRender) = 1
  /\ preRender[1].id = history.requested.id

\* C8: while no constraint is installed (after disableCameraMovementLimitation,
\* until the next installer call) a frame runs no check: the camera pose, the
\* last valid pose and the number of cameraBlocked events stay as they are.
C8_Cancellation ==
  [][(history.requested = Null /\ lastOp'.op = "frame")
       => /\ lastOp'.evals = <<>>
          /\ camera' = camera
          /\ previousCameraPosition' = previousCameraPosition
          /\ previousCameraOrientation' = previousCameraOrientation
          /\ blockedCount' = blockedCount]_vars

C8_Witness ==
  /\ lastOp.op = "frame"
  /\ lastOp.evals = <<>>
  /\ history.requested = Null
  /\ nextId > 1
  /\ previousCameraPosition # Null
  /\ camera.position # previousCameraPosition

\* C9: disableCameraMovementLimitation calls the unsubscribe handle at most
\* once, dispatches nothing and leaves the camera and the last valid pose
\* alone; called right after itself, or when nothing is active, it changes
\* nothing at all.
C9_ReleaseIdempotent ==
  [][lastOp'.op = "disable"
       => /\ lastOp'.unsubscribed <= 1
          /\ cameraMovementListener' = Undefined
          /\ preRender' = <<>>
          /\ camera' = camera
          /\ previousCameraPosition' = previousCameraPosition
          /\ previousCameraOrientation' = previousCameraOrientation
          /\ blockedCount' = blockedCount
          /\ (lastOp.op = "disable" \/ ~defined(cameraMovementListener)) =>
               /\ lastOp'.unsubscribed = 0
               /\ preRender' = preRender
               /\ cameraMovementListener' = cameraMovementListener]_vars

C9_Witness ==
  /\ lastOp.op = "disable"
  /\ lastOp.streak = 2
  /\ lastOp.unsubscribed = 0
  /\ nextId > 1
  /\ previousCameraPosition # Null
  /\ preRender = <<>>
  /\ cameraMovementListener = Undefined

\* C10: testCameraBBOX returns false exactly when xmin <= lon <= xmax and
\* ymin <= lat <= ymax (degrees) and z <= zmax, all edges inclusive.
C10_BoundingBoxPredicate ==
  probe.fn = "testCameraBBOX" =>
    LET lon == camera.position.lon * 5
        lat == camera.position.lat * 5
        z == camera.position.height
        xmin == probe.box[1]
        ymin == probe.box[2]
        xmax == probe.box[3]
        ymax == probe.box[4]
        zmax == probe.box[5]
    IN  /\ probe.result = FALSE <=>
             (xmin <= lon /\ lon <= xmax /\ ymin <= lat /\ lat <= ymax /\ z <= zmax)
        /\ (lon < xmin \/ lon > xmax \/ lat < ymin \/ lat > ymax \/ z > zmax)
             => probe.result = TRUE

\* in bounds on the upper edges and the ceiling, and strictly inside on xmin
C10_Witness ==
  /\ probe.fn = "testCameraBBOX"
  /\ probe.result = FALSE
  /\ camera.position.lon * 5 = probe.box[3]
  /\ camera.position.lat * 5 = probe.box[4]
  /\ camera.position.height = probe.box[5]
  /\ probe.box[1] < probe.box[3]

C12_NoValidPoseYet ==
  [][(/\ JustChecked("violation")'
      /\ previousCameraPosition = Null
      /\ history.requested # Null
      /\ WellFormed(history.requested))
       => /\ camera' = camera
          /\ previousCameraPosition' = camera.position
          /\ previousCameraOrientation' = orientationOf(camera)]_vars

\* C13: the first frame check after an installer call passes as valid: it does
\* not move the camera or dispatch cameraBlocked and it stores the camera's
\* pose as the last valid pose (stated here for a constraint that can be met,
\* installed while a pose from an earlier constraint is stored).
C13_ReArming ==
  [][(/\ lastOp'.op = "frame"
      /\ Len(lastOp'.evals) = 1
      /\ lastOp'.evals[1].verdict # "throw"
      /\ history.requested # Null
      /\ history.requested.fresh
      /\ WellFormed(history.requested)
      /\ previousCameraPosition # Null)
       => /\ camera' = camera
          /\ lastOp'.events = 0
          /\ previousCameraPosition' = camera.position
          /\ previousCameraOrientation' = orientationOf(camera)]_vars

\* C14: an installer given xmin > xmax, ymin > ymax or a negative distance
\* fails and installs nothing, so no callback with such parameters is ever
\* registered and no such constraint is ever the active one.
C14_InstallerPreconditions ==
  /\ \A i \in 1..Len(preRender) : WellFormed(preRender[i])
  /\ history.requested # Null => WellFormed(history.requested)

\* C15: the last valid pose changes only in a frame check that finds the
\* camera in bounds: a violating check, a camera move, an entity move,
\* disableCameraMovementLimitation and the installers leave it as it is.
C15_OnlyInBoundsCheckStores ==
  [][(\/ previousCameraPosition' # previousCameraPosition
      \/ previousCameraOrientation' # previousCameraOrientation)
       => JustChecked("inBounds")']_vars

\* a violating check whose listener installed a constraint left the pose of
\* the last in-bounds check in place
C15_Witness ==
  /\ JustChecked("violation")
  /\ lastOp.reaction = "limitBBOX"
  /\ previousCameraPosition # Null
  /\ history.lastInBounds # Null
  /\ previousCameraPosition = history.lastInBounds.position
  /\ previousCameraOrientation = orientationOf(history.lastInBounds)

\* C16: each frame check decides from the camera pose and the entity position
\* of that frame: it reverts and dispatches exactly when the active predicate,
\* applied to them as they are now, reports a violation, and otherwise stores
\* the pose.
C16_NoCachedVerdict ==
  [][(/\ lastOp'.op = "frame"
      /\ history.requested # Null
      /\ ~applyThrows(history.requested, camera, entity))
       => /\ lastOp'.events = 1 <=> applyTest(history.requested, camera, entity)
          /\ lastOp'.events = 0 => previousCameraPosition' = camera.position]_vars

\* the only constraint ever installed is an entity distance, and the check
\* found a violation at the very pose that had passed before: the entity moved
C16_Witness ==
  /\ JustChecked("violation")
  /\ lastOp.reaction = "none"
  /\ nextId = 2
  /\ history.requested # Null
  /\ history.requested.test = "testCameraDistanceFromEntity"
  /\ WellFormed(history.requested)
  /\ camera.position = previousCameraPosition
  /\ orientationOf(camera) = previousCameraOrientation
  /\ verdictOf(history.requested, camera, entity) = "violation"

\* C17: a frame check whose entity position does not resolve raises before it
\* touches anything: camera pose, last valid pose, registration and handle are
\* unchanged and no cameraBlocked event is dispatched.
C17_UnresolvedEntity ==
  [][JustChecked("throw")'
       => /\ camera' = camera
          /\ previousCameraPosition' = previousCameraPosition
          /\ previousCameraOrientation' = previousCameraOrientation
          /\ preRender' = preRender
          /\ cameraMovementListener' = cameraMovementListener
          /\ blockedCount' = blockedCount
          /\ lastOp'.events = 0]_vars

C17_Witness ==
  /\ JustChecked("throw")
  /\ entity.position = Undefined
  /\ previousCameraPosition # Null
  /\ camera.position # previousCameraPosition
  /\ Len(preRender) = 1

\* C18: the installers and disableCameraMovementLimitation do not move the
\* camera, dispatch cameraBlocked or evaluate the predicate; the camera pose
\* changes only when the host moves it or in a violating frame check.
C18_OnlyViolatingCheckMovesCamera ==
  [][/\ lastOp'.op \in {"install", "disable"} =>
          /\ camera' = camera
          /\ blockedCount' = blockedCount
          /\ lastOp'.events = 0
          /\ lastOp'.evals = <<>>
     /\ camera' # camera => (lastOp'.op = "cameraMove" \/ JustChecked("violation")')]_vars

\* a constraint was installed with the camera outside it, and the camera is
\* still there, away from the stored pose
C18_Witness ==
  /\ lastOp.op = "install"
  /\ previousCameraPosition # Null
  /\ camera.position # previousCameraPosition
  /\ verdictOf(history.requested, camera, entity) = "violation"
  /\ WellFormed(history.requested)

\* C19: when a cameraBlocked listener calls disableCameraMovementLimitation
\* or an installer from inside the violating check, the listener finds the
\* camera already reverted, and after the frame the guard has no callback
\* registered (disable) or exactly the newly installed one (installer); the
\* callback that was running is not registered any more.
C19_ReentrantLifecycle ==
  (lastOp.op = "frame" /\ lastOp.reaction # "none") =>
    /\ lastOp.heard = camera
    /\ \A i \in 1..Len(preRender) : preRender[i].id # lastOp.evals[1].id
    /\ lastOp.reaction = "disable" =>
         /\ preRender = <<>>
         /\ cameraMovementListener = Undefined
    /\ lastOp.reaction \in {"limitBBOX", "limitEntity"} =>
         /\ Len(preRender) = 1
         /\ preRender[1].id = history.requested.id
         /\ preRender[1].parameters = history.requested.parameters
         /\ cameraMovementListener = [removes |-> preRender[1].id]

\* the listener installed a constraint after a revert that moved the camera
C19_WitnessInstall ==
  /\ JustChecked("violation")
  /\ lastOp.reaction = "limitEntity"
  /\ lastOp.heard = camera
  /\ camera.position = previousCameraPosition
  /\ Len(preRender) = 1
  /\ preRender[1].id = lastOp.evals[1].id + 1
  /\ history.requested.replaces = lastOp.evals[1].id

====
